---- MODULE Spec2Model ----
(***************************************************************************)
(* Focus-session accounting of the two-character focus companion           *)
(* (src/App.tsx).  The realtime store is modelled by its contract: writes  *)
(* and multi-path updates apply atomically, ServerValue.TIMESTAMP is the   *)
(* server clock at the moment the write is applied, ServerValue.increment  *)
(* adds to the stored number, once('value') returns the node as stored     *)
(* when the read is served, and an onDisconnect write is applied by the    *)
(* server some time after the connection that registered it is lost.       *)
(*                                                                         *)
(* Each character has one browser session at a time.  Handlers that await  *)
(* (handleEnd, handleResume) are split at their awaits; the UI offers a    *)
(* button according to the session's cached focus state (userFocus), which *)
(* follows the store through the 'value' listener.  A write is applied to  *)
(* the store in the step that issues it.                                   *)
(*                                                                         *)
(* The specifications share the actions:                                   *)
(*   Spec      both users act, one handler at a time per user, all clocks  *)
(*             agree;                                                      *)
(*   SpecSkew  as Spec, with a session's Date.now() offset from the server *)
(*             clock;                                                      *)
(*   SpecRace  one user acts and presses buttons while handlers of theirs  *)
(*             await; the partner only selects;                            *)
(*   SpecLife  one user acts, one handler at a time, and the session loses *)
(*             its connection, is closed and is reloaded;                  *)
(*   SpecPair  as Spec over a shorter stretch of time;                     *)
(*   SpecTimer one user acts with an offset clock, and both sessions       *)
(*             refresh the seconds they display;                           *)
(*   SpecCycle one user runs a session around midnight UTC or around the   *)
(*             cycle boundary;                                             *)
(*   SpecNotify one user comes and goes, the other's session follows the   *)
(*             partner's presence;                                         *)
(*   SpecMail  rewards sent from the reward modal and answered;            *)
(*   SpecWave  greetings sent from the online notification and answered;   *)
(*   SpecHi    one user comes and goes, the other waves from the online    *)
(*             notification;                                               *)
(*   SpecJoin  both users run a session with pauses and each session shows *)
(*             the 'joined' notification;                                  *)
(*   SpecNotifyLive  SpecNotify with the offline timer firing when pending;*)
(*   SpecRecorder    the AudioRecorder component alone, with its own clock.*)
(*                                                                         *)
(* A 'value' event of a mailbox slot carries the value stored when it was  *)
(* dispatched; the listener's callback runs on it in a later step.         *)
(***************************************************************************)
EXTENDS Integers, FiniteSets, Sequences, TLC

\* ------------------------------------------------------------------ bounds
MaxTicks == 3        \* clock advances at most this many times
TickMs == 500        \* milliseconds per clock advance
SkewMs == 500        \* magnitude of a client clock offset
RaceTicks == 2       \* the same, where handlers overlap or sessions reload
MaxRuns == 1         \* runs started per character
MaxPauses == 2       \* pauses per run, where the clocks disagree
MaxSends == 3        \* rewards and greetings written in all
MaxRecordings == 2   \* recordings started in one AudioRecorder
RecTicks == 5        \* advances of the recorder's clock
MaxJoins == 2        \* 'joined' notifications a session shows
MaxDays == 2         \* days of the clock on which a session may begin
MsPerSec == 1000     \* Math.floor(ms / 1000)

\* ------------------------------------------------------------------ types
Characters == {"Flynn", "Rapunzel"}
Partner(c) == IF c = "Flynn" THEN "Rapunzel" ELSE "Flynn"

Idle == "IDLE"
Focusing == "FOCUSING"
Paused == "PAUSED"
NoState == "NULL"                 \* focusState absent from the node
FocusStates == {Idle, Focusing, Paused}

\* A nullable value is the empty set (null) or a singleton.
Null == {}
Some(v) == {v}
Val(x) == CHOOSE v \in x : TRUE
\* JavaScript truthiness of a nullable number: null and 0 are falsy.
Truthy(x) == x # Null /\ x # {0}
\* x || 0
OrZero(x) == IF Truthy(x) THEN Val(x) ELSE 0
\* null coerces to 0 in arithmetic
Num(x) == IF x = Null THEN 0 ELSE Val(x)
Max(a, b) == IF a >= b THEN a ELSE b

\* users/{character}: a node none of whose children is set does not exist.
AbsentNode ==
  [focusState |-> NoState, focusStartTime |-> Null, totalPausedTime |-> Null,
   lastPauseStartTime |-> Null, isOnline |-> Null]

Invocations == {1, 2}             \* handleEnd calls a session may have in flight

NoUpdates == [self |-> 0, joint |-> 0]
\* pc: where the call stands; now, user: its sample of the clock and its snapshot
\* of its own node; upd: the increments it writes; gPaused, gRun: ghosts, the true
\* paused time of the run when the call began and the run its snapshot is of
IdleInv ==
  [pc |-> "idle", now |-> 0, user |-> AbsentNode, upd |-> NoUpdates,
   gPaused |-> 0, gRun |-> 0]
IdleResume == [pc |-> "idle", data |-> AbsentNode]

\* the two mailbox slots of a user node
Kinds == {"reward", "message"}
Writes == 1..MaxSends

VARIABLES
  now,            \* server clock, ms
  users,          \* users/{character}
  dailyStats,     \* dailyStats/{cycle date}/{character | joint}/totalFocusTime
  userCharacter,  \* per session: a character has been selected
  userFocus,      \* per session: cached focusState (useState userFocus)
  ends,           \* handleEnd invocations
  resumes,        \* handleResume invocation
  dangling,       \* the on-load once('value') check is pending
  connPc,         \* '.info/connected' handler: "off", "hooked", "up"
  armed,          \* onDisconnect registered for the live connection
  due,            \* a lost connection's onDisconnect not yet applied
  skew,           \* environment: per session, Date.now() minus the server clock
  reentrant,      \* environment: users press buttons while a handler of theirs awaits
  actors,         \* environment: the characters whose users do more than select
  horizon,        \* environment: the last clock value
  runs,           \* environment: the runs a character may start
  runNo,          \* ghost: runs started
  nPauses,        \* ghost: pauses of the current run, counted where clocks disagree
  pausedTrue,     \* ghost: ms the store showed the current run Paused
  bothFocus,      \* ghost: ms both were Focusing since the later run start
  issued,         \* ghost: sum of increments issued per counter
  partnerView,    \* per session: the partner's node as onPartnerChange cached it
  userElapsedSeconds,     \* per session: own seconds on display
  partnerElapsedSeconds,  \* per session: the partner's seconds on display
  showOnlineNotification, \* per session: the 'partner online' notification is up
  onlineTimer,    \* per session: the 15 s timer of onlineNotificationTimerRef is pending
  hiSent,         \* per session: the wave was sent in this notification
  emitted,        \* ghost, per session: flips when the notification is shown and armed
  mailbox,        \* users/{character}/lastRewardReceived and lastMessageReceived
  inbox,          \* per session and slot: the snapshot on its way to the listener
  pushed,         \* per session and slot: the value last dispatched to the listener
  received,       \* per session: receivedReward and receivedMessage
  showRewardModal,\* per session: the reward modal is up
  sent,           \* ghost: mailbox writes so far; the n-th write carries identity n
  surfaced,       \* ghost: how often each write was put on the recipient's screen
  skipped,        \* ghost: writes overwritten while still in their slot
  showJoinNotification,    \* per session: the 'joined' notification is up
  joinTimers,     \* per session: the pending 4 s timers of the join effect, oldest
                  \* first; each carries (ghost) the number of the notification it
                  \* was set for
  joins,          \* ghost, per session: 'joined' notifications shown so far
  showOfflineNotification, \* per session: the 'partner offline' notification is up
  offlineTimer,   \* per session: the 4 s timer of the offline effect is pending
  waves,          \* ghost, per session: greetings written since the online
                  \* notification was last shown
  recClock,       \* AudioRecorder: wall clock, ms
  status,         \* AudioRecorder: useState status
  mediaRecorderRef, \* AudioRecorder: 0 for null, else the number of the recorder it
                  \* holds, which is in state 'recording'
  capTimers,      \* AudioRecorder: pending cap timers; due: when it fires, rec:
                  \* (ghost) the recording it was set for
  recBegan,       \* ghost: the clock when the current recording started
  recNo,          \* ghost: recordings started
  buckets         \* the {cycle date} keys of the dailyStats paths written; at: ghost,
                  \* the sample of the clock the key was computed from

env == <<skew, reentrant, actors, horizon, runs>>
conn == <<connPc, armed, due>>
timer == <<userElapsedSeconds, partnerElapsedSeconds>>
presence == <<showOnlineNotification, onlineTimer, hiSent, emitted>>
mail == <<mailbox, inbox, pushed, received, showRewardModal, sent, surfaced, skipped>>
notes == <<showJoinNotification, joinTimers, joins, showOfflineNotification,
           offlineTimer, waves>>
audio == <<recClock, status, mediaRecorderRef, capTimers, recBegan, recNo>>
side == <<partnerView, timer, presence, mail, notes, audio>>
vars == <<now, users, dailyStats, buckets, userCharacter, userFocus, ends, resumes, dangling,
          conn, env, runNo, nPauses, pausedTrue, bothFocus, issued, side>>

StatKeys == Characters \cup {"joint"}

\* ------------------------------------------------------- pure computations
\* Date.now() in the session of c
DateNow(c) == now + skew[c]

\* mutant: rounds to the nearest second
RoundSec(ms) == IF ms > 0 THEN (ms + (MsPerSec \div 2)) \div MsPerSec ELSE 0

\* Math.floor(ms / 1000) when ms > 0, else 0
FloorSec(ms) == IF ms > 0 THEN ms \div MsPerSec ELSE 0

InRun(data) ==
  /\ data.focusState \in {Focusing, Paused}
  /\ Truthy(data.focusStartTime)

\* mutant: the pause still open at t is not counted
StoredTotalPaused(data, t) == OrZero(data.totalPausedTime)

FinalTotalPaused(data, t) ==
  OrZero(data.totalPausedTime)
    + (IF data.focusState = Paused /\ Truthy(data.lastPauseStartTime)
         THEN t - Num(data.lastPauseStartTime) ELSE 0)

SessionDurationSec(userData, t) ==
  FloorSec((t - Num(userData.focusStartTime)) - FinalTotalPaused(userData, t))

EffectiveStart(data, t) == Num(data.focusStartTime) + FinalTotalPaused(data, t)

\* mutant: the earlier of the two effective starts
EarlierEffectiveStart(userData, partnerData, t) ==
  IF EffectiveStart(userData, t) <= EffectiveStart(partnerData, t)
    THEN EffectiveStart(userData, t) ELSE EffectiveStart(partnerData, t)

EffectiveJointStart(userData, partnerData, t) ==
  Max(EffectiveStart(userData, t), EffectiveStart(partnerData, t))

JointDurationSec(userData, partnerData, t) ==
  IF InRun(partnerData)
    THEN FloorSec(t - EffectiveJointStart(userData, partnerData, t))
    ELSE 0

\* mutant: the run check of the guard is missing
EndGuardNoRunCheck(userData, partnerData) ==
  /\ userData # AbsentNode
  /\ partnerData # AbsentNode

\* the guard of handleEnd on its two snapshots
EndGuard(userData, partnerData) ==
  /\ userData # AbsentNode
  /\ partnerData # AbsentNode
  /\ InRun(userData)

\* --------------------------------------------------------- cycle dates
HourMs == 60 * 60 * MsPerSec
DayMs == 24 * HourMs
CycleOffsetHours == 1            \* the cycle starts at 1 AM UTC

\* Date: day number and time within the day of a time value
UTCDay(t) == t \div DayMs
TimeWithinDay(t) == t % DayMs
getUTCHours(t) == TimeWithinDay(t) \div HourMs
\* the hour field is replaced; an hour below 0 carries into the previous day
setUTCHours(t, h) == UTCDay(t) * DayMs + h * HourMs + (TimeWithinDay(t) % HourMs)

\* year, month (1..12) and day of the month of a day number (days since 1970-01-01)
CivilFromDays(days) ==
  LET z == days + 719468
      era == z \div 146097
      doe == z - era * 146097
      yoe == (doe - (doe \div 1460) + (doe \div 36524) - (doe \div 146096)) \div 365
      doy == doe - (365 * yoe + (yoe \div 4) - (yoe \div 100))
      mp == (5 * doy + 2) \div 153
      d == doy - ((153 * mp + 2) \div 5) + 1
      m == IF mp < 10 THEN mp + 3 ELSE mp - 9
      y == yoe + era * 400 + (IF m <= 2 THEN 1 ELSE 0)
  IN [year |-> y, month |-> m, date |-> d]

getUTCFullYear(t) == CivilFromDays(UTCDay(t)).year
getUTCMonth(t) == CivilFromDays(UTCDay(t)).month - 1
getUTCDate(t) == CivilFromDays(UTCDay(t)).date

\* strings are sequences of characters
DigitChars == <<"0", "1", "2", "3", "4", "5", "6", "7", "8", "9">>
RECURSIVE toString(_)
toString(n) ==
  IF n < 10 THEN <<DigitChars[n + 1]>>
  ELSE toString(n \div 10) \o <<DigitChars[(n % 10) + 1]>>
padStart2(str) == IF Len(str) < 2 THEN <<"0">> \o str ELSE str

\* `${year}-${month}-${day}` of a Date
DateString(date) ==
  LET year == getUTCFullYear(date)
      month == padStart2(toString(getUTCMonth(date) + 1))
      day == padStart2(toString(getUTCDate(date)))
  IN toString(year) \o <<"-">> \o month \o <<"-">> \o day

\* mutant: the hour is not shifted
UTCDateString(timestamp) == DateString(timestamp)

getCycleDateString(timestamp) ==
  DateString(setUTCHours(timestamp, getUTCHours(timestamp) - CycleOffsetHours))

\* the updates handleEnd builds from its two snapshots and its sample of the clock
EndUpdates(userData, partnerData, t) ==
  [self |-> SessionDurationSec(userData, t),
   joint |-> JointDurationSec(userData, partnerData, t)]

\* mutant: the seconds are written in place of an increment
ServerSet(cur, delta) == delta

\* ServerValue.increment
ServerIncrement(cur, delta) == cur + delta

NewTotalPausedTime(data, t) ==
  OrZero(data.totalPausedTime) + (t - Num(data.lastPauseStartTime))

ResumeGuard(data) ==
  /\ data # AbsentNode
  /\ data.focusState = Paused
  /\ Truthy(data.lastPauseStartTime)

\* x || null
OrNull(x) == IF Truthy(x) THEN x ELSE Null

\* mutant: the paused total is not subtracted
ElapsedSinceStart(focus, startTime, totalPaused, lastPauseStart, t) ==
  IF ~Truthy(startTime) THEN 0 ELSE (t - Val(startTime)) \div MsPerSec

\* mutant: the pause still open is not counted, so the value runs on while Paused
ElapsedNotFrozen(focus, startTime, totalPaused, lastPauseStart, t) ==
  IF ~Truthy(startTime) THEN 0
  ELSE (t - Val(startTime) - OrZero(totalPaused)) \div MsPerSec

\* calculateElapsed, with t the value of Date.now() it reads
calculateElapsed(focus, startTime, totalPaused, lastPauseStart, t) ==
  IF ~Truthy(startTime) THEN 0
  ELSE LET currentTotalPaused ==
             OrZero(totalPaused)
               + (IF focus = Paused /\ Truthy(lastPauseStart)
                    THEN t - Val(lastPauseStart) ELSE 0)
       IN (t - Val(startTime) - currentTotalPaused) \div MsPerSec

\* seconds > 0 ? seconds : 0
NonNegative(seconds) == IF seconds > 0 THEN seconds ELSE 0

\* what onPartnerChange caches of the partner's node
ViewOf(data) ==
  IF data.isOnline = Some(TRUE)
    THEN [online |-> TRUE,
          focus |-> IF data.focusState = NoState THEN Idle ELSE data.focusState,
          start |-> OrNull(data.focusStartTime),
          totalPaused |-> OrNull(data.totalPausedTime),
          lastPause |-> OrNull(data.lastPauseStartTime)]
    ELSE [online |-> FALSE, focus |-> Idle, start |-> Null, totalPaused |-> Null,
          lastPause |-> Null]

OfflineView == ViewOf(AbsentNode)

\* ------------------------------------------------------------------ state
Epoch == TickMs + SkewMs          \* first clock value: every Date.now() is positive

\* With a clock offset a pause and its resume can change totalPausedTime without
\* the clock advancing, so the pauses of a run are bounded there.
ClocksDisagree == \E c \in Characters : skew[c] # 0

Pending == {"begun", "gotUser", "ready"}
InFlight(c) ==
  \/ \E i \in Invocations : ends[c][i].pc \in Pending
  \/ resumes[c].pc = "read"
\* a button of c's session can be pressed
MayAct(c) == userCharacter[c] /\ c \in actors /\ (reentrant \/ ~InFlight(c))
FreeSlots(c) == {i \in Invocations : ends[c][i].pc \notin Pending}
IsFirstFree(c, i) == i \in FreeSlots(c) /\ \A j \in FreeSlots(c) : i <= j

\* the state after both apps were opened at clock value t0
InitAt(t0, skews, re, who, ticks, r) ==
  /\ now = t0
  /\ users = [c \in Characters |-> AbsentNode]
  /\ dailyStats = [k \in StatKeys |-> 0]
  /\ userCharacter = [c \in Characters |-> FALSE]
  /\ userFocus = [c \in Characters |-> Idle]
  /\ ends = [c \in Characters |-> [i \in Invocations |-> IdleInv]]
  /\ resumes = [c \in Characters |-> IdleResume]
  /\ dangling = [c \in Characters |-> FALSE]
  /\ connPc = [c \in Characters |-> "off"]
  /\ armed = [c \in Characters |-> FALSE]
  /\ due = [c \in Characters |-> FALSE]
  /\ skew \in [Characters -> skews]
  /\ reentrant = re
  /\ actors = who
  /\ horizon = t0 + ticks * TickMs
  /\ runs = r
  /\ runNo = [c \in Characters |-> 0]
  /\ nPauses = [c \in Characters |-> 0]
  /\ pausedTrue = [c \in Characters |-> 0]
  /\ bothFocus = 0
  /\ issued = [k \in StatKeys |-> 0]
  /\ partnerView = [c \in Characters |-> OfflineView]
  /\ userElapsedSeconds = [c \in Characters |-> 0]
  /\ partnerElapsedSeconds = [c \in Characters |-> 0]
  /\ showOnlineNotification = [c \in Characters |-> FALSE]
  /\ onlineTimer = [c \in Characters |-> FALSE]
  /\ hiSent = [c \in Characters |-> FALSE]
  /\ emitted = [c \in Characters |-> FALSE]
  /\ mailbox = [c \in Characters |-> [k \in Kinds |-> Null]]
  /\ inbox = [c \in Characters |-> [k \in Kinds |-> <<>>]]
  /\ pushed = [c \in Characters |-> [k \in Kinds |-> <<>>]]
  /\ received = [c \in Characters |-> [k \in Kinds |-> Null]]
  /\ showRewardModal = [c \in Characters |-> FALSE]
  /\ sent = 0
  /\ surfaced = [w \in Writes |-> 0]
  /\ skipped = {}
  /\ buckets = {}
  /\ showJoinNotification = [c \in Characters |-> FALSE]
  /\ joinTimers = [c \in Characters |-> <<>>]
  /\ joins = [c \in Characters |-> 0]
  /\ showOfflineNotification = [c \in Characters |-> FALSE]
  /\ offlineTimer = [c \in Characters |-> FALSE]
  /\ waves = [c \in Characters |-> 0]
  /\ recClock = 0
  /\ status = "idle"
  /\ mediaRecorderRef = 0
  /\ capTimers = {}
  /\ recBegan = 0
  /\ recNo = 0

InitRuns(skews, re, who, ticks, r) == InitAt(Epoch, skews, re, who, ticks, r)

InitWith(skews, re, who, ticks) == InitRuns(skews, re, who, ticks, MaxRuns)

Init == InitWith({0}, FALSE, Characters, MaxTicks)
InitSkew == InitWith({0 - SkewMs, 0, SkewMs}, FALSE, {"Flynn"}, MaxTicks)
InitRace == InitWith({0}, TRUE, {"Flynn"}, RaceTicks)
InitLife == InitWith({0}, FALSE, {"Flynn"}, RaceTicks)
\* the acting user's clock is offset; the partner watches with the server's time
InitTimer ==
  /\ InitWith({0, SkewMs}, FALSE, {"Flynn"}, RaceTicks)
  /\ skew["Rapunzel"] = 0

\* ---------------------------------------------------------------- actions
\* the clock advances; the ghosts measure what the store shows meanwhile
Tick ==
  /\ now + TickMs <= horizon
  /\ now' = now + TickMs
  /\ pausedTrue' = [c \in Characters |->
        IF users[c].focusState = Paused /\ users[c].focusStartTime # Null
          THEN pausedTrue[c] + TickMs ELSE pausedTrue[c]]
  /\ bothFocus' =
        IF \A c \in Characters :
             users[c].focusState = Focusing /\ users[c].focusStartTime # Null
          THEN bothFocus + TickMs ELSE bothFocus
  /\ UNCHANGED <<users, dailyStats, buckets, userCharacter, userFocus, ends, resumes, dangling,
                 conn, env, side, runNo, nPauses, issued>>

\* the effect that follows registers the listeners and the on-load check
handleCharacterSelect(c) ==
  /\ ~userCharacter[c]
  /\ users' = [users EXCEPT ![c] =
        [@ EXCEPT !.focusState = Idle, !.focusStartTime = Null, !.isOnline = Some(TRUE)]]
  /\ userCharacter' = [userCharacter EXCEPT ![c] = TRUE]
  /\ dangling' = [dangling EXCEPT ![c] = c \in actors]
  /\ UNCHANGED <<now, dailyStats, buckets, userFocus, ends, resumes, conn, env, side, runNo, nPauses,
                 pausedTrue, bothFocus, issued>>

\* '.info/connected' turned true: onDisconnect().update(...) is registered
ConnRegister(c) ==
  /\ userCharacter[c] /\ c \in actors
  /\ connPc[c] = "off"
  /\ connPc' = [connPc EXCEPT ![c] = "hooked"]
  /\ armed' = [armed EXCEPT ![c] = TRUE]
  /\ UNCHANGED <<now, users, dailyStats, buckets, userCharacter, userFocus, ends, resumes,
                 dangling, due, env, side, runNo, nPauses, pausedTrue, bothFocus, issued>>

\* .then(() => userStatusRef.update({ isOnline: true }))
ConnOnline(c) ==
  /\ userCharacter[c]
  /\ connPc[c] = "hooked"
  /\ connPc' = [connPc EXCEPT ![c] = "up"]
  /\ users' = [users EXCEPT ![c] = [@ EXCEPT !.isOnline = Some(TRUE)]]
  /\ UNCHANGED <<now, dailyStats, buckets, userCharacter, userFocus, ends, resumes, dangling,
                 armed, due, env, side, runNo, nPauses, pausedTrue, bothFocus, issued>>

\* the connection is lost while the session lives on; it will reconnect
Drop(c) ==
  /\ userCharacter[c]
  /\ connPc[c] # "off"
  /\ connPc' = [connPc EXCEPT ![c] = "off"]
  /\ due' = [due EXCEPT ![c] = due[c] \/ armed[c]]
  /\ armed' = [armed EXCEPT ![c] = FALSE]
  /\ UNCHANGED <<now, users, dailyStats, buckets, userCharacter, userFocus, ends, resumes,
                 dangling, env, side, runNo, nPauses, pausedTrue, bothFocus, issued>>

\* the browser session ends (tab closed or reloaded): React state is gone
Unload(c) ==
  /\ userCharacter[c] /\ c \in actors
  /\ userCharacter' = [userCharacter EXCEPT ![c] = FALSE]
  /\ userFocus' = [userFocus EXCEPT ![c] = Idle]
  /\ ends' = [ends EXCEPT ![c] = [i \in Invocations |-> IdleInv]]
  /\ resumes' = [resumes EXCEPT ![c] = IdleResume]
  /\ dangling' = [dangling EXCEPT ![c] = FALSE]
  /\ connPc' = [connPc EXCEPT ![c] = "off"]
  /\ due' = [due EXCEPT ![c] = due[c] \/ armed[c]]
  /\ armed' = [armed EXCEPT ![c] = FALSE]
  /\ partnerView' = [partnerView EXCEPT ![c] = OfflineView]
  /\ userElapsedSeconds' = [userElapsedSeconds EXCEPT ![c] = 0]
  /\ partnerElapsedSeconds' = [partnerElapsedSeconds EXCEPT ![c] = 0]
  /\ showOnlineNotification' = [showOnlineNotification EXCEPT ![c] = FALSE]
  /\ onlineTimer' = [onlineTimer EXCEPT ![c] = FALSE]
  /\ hiSent' = [hiSent EXCEPT ![c] = FALSE]
  /\ inbox' = [inbox EXCEPT ![c] = [k \in Kinds |-> <<>>]]
  /\ pushed' = [pushed EXCEPT ![c] = [k \in Kinds |-> <<>>]]
  /\ received' = [received EXCEPT ![c] = [k \in Kinds |-> Null]]
  /\ showRewardModal' = [showRewardModal EXCEPT ![c] = FALSE]
  /\ showJoinNotification' = [showJoinNotification EXCEPT ![c] = FALSE]
  /\ joinTimers' = [joinTimers EXCEPT ![c] = <<>>]
  /\ showOfflineNotification' = [showOfflineNotification EXCEPT ![c] = FALSE]
  /\ offlineTimer' = [offlineTimer EXCEPT ![c] = FALSE]
  /\ waves' = [waves EXCEPT ![c] = 0]
  /\ UNCHANGED <<now, users, dailyStats, buckets, env, runNo, nPauses, pausedTrue, bothFocus,
                 issued, emitted, mailbox, sent, surfaced, skipped, joins, audio>>

\* the server applies the write registered with onDisconnect()
OnDisconnect(c) ==
  /\ due[c]
  /\ due' = [due EXCEPT ![c] = FALSE]
  /\ users' = [users EXCEPT ![c] =
        [@ EXCEPT !.isOnline = Some(FALSE), !.focusState = Idle, !.focusStartTime = Null,
                  !.totalPausedTime = Null, !.lastPauseStartTime = Null]]
  /\ UNCHANGED <<now, dailyStats, buckets, userCharacter, userFocus, ends, resumes, dangling,
                 connPc, armed, env, side, runNo, nPauses, pausedTrue, bothFocus, issued>>

\* the 'value' listener on users/{userCharacter} delivers the stored node
onUserChange(c) ==
  /\ userCharacter[c]
  /\ users[c] # AbsentNode
  /\ LET f == IF users[c].focusState = NoState THEN Idle ELSE users[c].focusState
     IN /\ userFocus[c] # f
        /\ userFocus' = [userFocus EXCEPT ![c] = f]
  /\ UNCHANGED <<now, users, dailyStats, buckets, userCharacter, ends, resumes, dangling, conn,
                 env, side, runNo, nPauses, pausedTrue, bothFocus, issued>>

\* handleStart and handleJoin: the button is offered while the session shows Idle
startFocusing(c) ==
  /\ MayAct(c)
  /\ userFocus[c] = Idle
  /\ runNo[c] < runs
  /\ users' = [users EXCEPT ![c] =
        [@ EXCEPT !.focusState = Focusing, !.focusStartTime = Some(now),
                  !.totalPausedTime = Some(0), !.lastPauseStartTime = Null]]
  /\ userFocus' = [userFocus EXCEPT ![c] = Focusing]
  /\ runNo' = [runNo EXCEPT ![c] = @ + 1]
  /\ nPauses' = [nPauses EXCEPT ![c] = 0]
  /\ pausedTrue' = [pausedTrue EXCEPT ![c] = 0]
  /\ bothFocus' = 0
  /\ UNCHANGED <<now, dailyStats, buckets, userCharacter, ends, resumes, dangling, conn, env, side,
                 issued>>

\* PAUSE is offered while the session shows Focusing
handlePause(c) ==
  /\ MayAct(c)
  /\ userFocus[c] = Focusing
  /\ nPauses[c] < MaxPauses
  /\ users' = [users EXCEPT ![c] =
        [@ EXCEPT !.focusState = Paused, !.lastPauseStartTime = Some(now)]]
  /\ userFocus' = [userFocus EXCEPT ![c] = Paused]
  /\ nPauses' = [nPauses EXCEPT ![c] = IF ClocksDisagree THEN @ + 1 ELSE @]
  /\ UNCHANGED <<now, dailyStats, buckets, userCharacter, ends, resumes, dangling, conn, env, side,
                 runNo, pausedTrue, bothFocus, issued>>

\* handleResume up to its await: the once('value') read is served
ResumeRead(c) ==
  /\ MayAct(c)
  /\ userFocus[c] = Paused
  /\ resumes[c].pc = "idle"
  /\ resumes' = [resumes EXCEPT ![c] = [pc |-> "read", data |-> users[c]]]
  /\ UNCHANGED <<now, users, dailyStats, buckets, userCharacter, userFocus, ends, dangling,
                 conn, env, side, runNo, nPauses, pausedTrue, bothFocus, issued>>

\* handleResume after its await
ResumeApply(c) ==
  /\ resumes[c].pc = "read"
  /\ resumes' = [resumes EXCEPT ![c] = IdleResume]
  /\ IF ResumeGuard(resumes[c].data)
       THEN /\ users' = [users EXCEPT ![c] =
                  [@ EXCEPT !.focusState = Focusing,
                            !.totalPausedTime =
                               Some(NewTotalPausedTime(resumes[c].data, DateNow(c))),
                            !.lastPauseStartTime = Null]]
            /\ userFocus' = [userFocus EXCEPT ![c] = Focusing]
       ELSE UNCHANGED <<users, userFocus>>
  /\ UNCHANGED <<now, dailyStats, buckets, userCharacter, ends, dangling, conn, env, side, runNo, nPauses,
                 pausedTrue, bothFocus, issued>>

\* handleEnd up to its await: Date.now() is sampled and the two reads are sent
BeginEnd(c, i) ==
  ends' = [ends EXCEPT ![c][i] =
             [IdleInv EXCEPT !.pc = "begun", !.now = DateNow(c),
                             !.gPaused = pausedTrue[c]]]

\* END SESSION is offered while the session shows Focusing or Paused
EndBegin(c, i) ==
  /\ MayAct(c)
  /\ userFocus[c] \in {Focusing, Paused}
  /\ IsFirstFree(c, i)
  /\ BeginEnd(c, i)
  /\ UNCHANGED <<now, users, dailyStats, buckets, userCharacter, userFocus, resumes, dangling,
                 conn, env, side, runNo, nPauses, pausedTrue, bothFocus, issued>>

\* the once('value') callback registered on load
DanglingCheck(c, i) ==
  /\ userCharacter[c]
  /\ dangling[c]
  /\ dangling' = [dangling EXCEPT ![c] = FALSE]
  /\ IsFirstFree(c, i)
  /\ IF users[c] # AbsentNode /\ InRun(users[c])
       THEN BeginEnd(c, i)
       ELSE UNCHANGED ends
  /\ UNCHANGED <<now, users, dailyStats, buckets, userCharacter, userFocus, resumes, conn, env, side,
                 runNo, nPauses, pausedTrue, bothFocus, issued>>

\* userRef.once('value') is served
EndReadUser(c, i) ==
  /\ ends[c][i].pc = "begun"
  /\ ends' = [ends EXCEPT ![c][i] =
        [@ EXCEPT !.pc = "gotUser", !.user = users[c], !.gRun = runNo[c]]]
  /\ UNCHANGED <<now, users, dailyStats, buckets, userCharacter, userFocus, resumes, dangling,
                 conn, env, side, runNo, nPauses, pausedTrue, bothFocus, issued>>

\* partnerRef.once('value') is served; what the handler will write is now fixed
EndReadPartner(c, i) ==
  /\ ends[c][i].pc = "gotUser"
  /\ LET userData == ends[c][i].user
         partnerData == users[Partner(c)]
     IN ends' = [ends EXCEPT ![c][i] =
           IF EndGuard(userData, partnerData)
             THEN [@ EXCEPT !.pc = "ready",
                     !.upd = EndUpdates(userData, partnerData, ends[c][i].now)]
             ELSE [IdleInv EXCEPT !.pc = "aborted"]]
  /\ UNCHANGED <<now, users, dailyStats, buckets, userCharacter, userFocus, resumes, dangling,
                 conn, env, side, runNo, nPauses, pausedTrue, bothFocus, issued>>

\* mutant: an increment is written whatever the seconds
AlwaysIncrement(sec) == TRUE

\* if (sessionDurationSec > 0), if (jointDurationSec > 0)
HasIncrement(sec) == sec > 0

\* mutant: the update holds the increments only
EndNoReset(data) == data

\* the run-scoped paths of the update
EndReset(data) ==
  [data EXCEPT !.focusState = Idle, !.focusStartTime = Null,
               !.totalPausedTime = Null, !.lastPauseStartTime = Null]

\* const todayDateString = getCycleDateString(now)
todayDateString(c, i) == getCycleDateString(ends[c][i].now)

\* database.ref().update(updates): one multi-path update
EndApply(c, i) ==
  /\ ends[c][i].pc = "ready"
  /\ LET u == ends[c][i].upd
     IN /\ dailyStats' = [k \in StatKeys |->
               IF k = c /\ HasIncrement(u.self)
                 THEN ServerIncrement(dailyStats[k], u.self)
               ELSE IF k = "joint" /\ HasIncrement(u.joint)
                      THEN ServerIncrement(dailyStats[k], u.joint)
               ELSE dailyStats[k]]
        /\ issued' = [k \in StatKeys |->
               IF k = c THEN issued[k] + u.self
               ELSE IF k = "joint" THEN issued[k] + u.joint
               ELSE issued[k]]
  /\ users' = [users EXCEPT ![c] = EndReset(@)]
  /\ userFocus' = [userFocus EXCEPT ![c] = Idle]
  /\ ends' = [ends EXCEPT ![c][i] =
        [IdleInv EXCEPT !.pc = "done", !.upd = ends[c][i].upd, !.gRun = ends[c][i].gRun]]
  /\ buckets' = IF HasIncrement(ends[c][i].upd.self) \/ HasIncrement(ends[c][i].upd.joint)
                  THEN buckets \cup {[key |-> todayDateString(c, i), at |-> ends[c][i].now]}
                  ELSE buckets
  /\ showRewardModal' = [showRewardModal EXCEPT ![c] = TRUE]
  /\ UNCHANGED <<now, userCharacter, resumes, dangling, conn, env, runNo, nPauses,
                 pausedTrue, bothFocus, partnerView, timer, presence, mailbox, inbox,
                 pushed, received, sent, surfaced, skipped, notes, audio>>

\* mutant: the notification does not look at the previous presence
OnlineEffectNoEdge(c, cur, prev) ==
  IF (cur.focus = Focusing /\ prev.focus = Idle) \/ ~cur.online
    THEN /\ onlineTimer' = [onlineTimer EXCEPT ![c] = FALSE]
         /\ showOnlineNotification' = [showOnlineNotification EXCEPT ![c] = FALSE]
         /\ hiSent' = [hiSent EXCEPT ![c] = FALSE]
         /\ UNCHANGED emitted
    ELSE IF cur.online /\ cur.focus = Idle
      THEN /\ showOnlineNotification' = [showOnlineNotification EXCEPT ![c] = TRUE]
           /\ onlineTimer' = [onlineTimer EXCEPT ![c] = TRUE]
           /\ emitted' = [emitted EXCEPT ![c] = ~@]
           /\ UNCHANGED hiSent
      ELSE UNCHANGED presence

\* mutant: the partner going offline does not clear the notification
OnlineEffectIgnoresOffline(c, cur, prev) ==
  IF cur.focus = Focusing /\ prev.focus = Idle
    THEN /\ onlineTimer' = [onlineTimer EXCEPT ![c] = FALSE]
         /\ showOnlineNotification' = [showOnlineNotification EXCEPT ![c] = FALSE]
         /\ hiSent' = [hiSent EXCEPT ![c] = FALSE]
         /\ UNCHANGED emitted
    ELSE IF cur.online /\ ~prev.online /\ cur.focus = Idle
      THEN /\ showOnlineNotification' = [showOnlineNotification EXCEPT ![c] = TRUE]
           /\ onlineTimer' = [onlineTimer EXCEPT ![c] = TRUE]
           /\ emitted' = [emitted EXCEPT ![c] = ~@]
           /\ UNCHANGED hiSent
      ELSE UNCHANGED presence

\* mutant: the partner starting to focus resets the wave flag only
OnlineEffectKeepsShown(c, cur, prev) ==
  IF ~cur.online
    THEN /\ onlineTimer' = [onlineTimer EXCEPT ![c] = FALSE]
         /\ showOnlineNotification' = [showOnlineNotification EXCEPT ![c] = FALSE]
         /\ hiSent' = [hiSent EXCEPT ![c] = FALSE]
         /\ UNCHANGED emitted
    ELSE IF cur.focus = Focusing /\ prev.focus = Idle
      THEN /\ hiSent' = [hiSent EXCEPT ![c] = FALSE]
           /\ UNCHANGED <<showOnlineNotification, onlineTimer, emitted>>
    ELSE IF cur.online /\ ~prev.online /\ cur.focus = Idle
      THEN /\ showOnlineNotification' = [showOnlineNotification EXCEPT ![c] = TRUE]
           /\ onlineTimer' = [onlineTimer EXCEPT ![c] = TRUE]
           /\ emitted' = [emitted EXCEPT ![c] = ~@]
           /\ UNCHANGED hiSent
      ELSE UNCHANGED presence

\* The online notification effect of c's session, run by the render in which the
\* partner is cur and was prev in the render before (usePrevious).
OnlineEffect(c, cur, prev) ==
  IF (cur.focus = Focusing /\ prev.focus = Idle) \/ ~cur.online
    THEN /\ onlineTimer' = [onlineTimer EXCEPT ![c] = FALSE]
         /\ showOnlineNotification' = [showOnlineNotification EXCEPT ![c] = FALSE]
         /\ hiSent' = [hiSent EXCEPT ![c] = FALSE]
         /\ UNCHANGED emitted
    ELSE IF cur.online /\ ~prev.online /\ cur.focus = Idle
      THEN /\ showOnlineNotification' = [showOnlineNotification EXCEPT ![c] = TRUE]
           /\ onlineTimer' = [onlineTimer EXCEPT ![c] = TRUE]
           /\ emitted' = [emitted EXCEPT ![c] = ~@]
           /\ UNCHANGED hiSent
      ELSE UNCHANGED presence

\* the join effect's condition in a render with the partner cur, prev before
JoinCondition(user, cur, prev) ==
  user = Focusing /\ cur.focus = Focusing /\ prev.focus # Focusing

\* The join notification effect: the notification is shown and a 4 s timer is
\* set; the timer is not kept and no cleanup clears it.
JoinEffect(c, cur, prev) ==
  IF JoinCondition(userFocus[c], cur, prev)
    THEN /\ showJoinNotification' = [showJoinNotification EXCEPT ![c] = TRUE]
         /\ joins' = [joins EXCEPT ![c] = @ + 1]
         /\ joinTimers' = [joinTimers EXCEPT ![c] = Append(@, joins[c] + 1)]
    ELSE UNCHANGED <<showJoinNotification, joins, joinTimers>>

\* The offline notification effect.  Its dependencies are the presence and the
\* previous presence, so it runs again in the first render after the one that saw
\* the edge, and the cleanup of the earlier run clears the timer that run had set.
OfflineEffect(c, cur, prev) ==
  IF ~cur.online /\ prev.online
    THEN /\ showOfflineNotification' = [showOfflineNotification EXCEPT ![c] = TRUE]
         /\ offlineTimer' = [offlineTimer EXCEPT ![c] = TRUE]
    ELSE /\ offlineTimer' = [offlineTimer EXCEPT ![c] = FALSE]
         /\ UNCHANGED showOfflineNotification

\* the 'value' listener on users/{partnerCharacter} delivers the stored node; the
\* render that follows runs the effects that depend on the partner
onPartnerChange(c) ==
  /\ userCharacter[c]
  /\ partnerView[c] # ViewOf(users[Partner(c)])
  /\ JoinCondition(userFocus[c], ViewOf(users[Partner(c)]), partnerView[c])
       => joins[c] < MaxJoins
  /\ partnerView' = [partnerView EXCEPT ![c] = ViewOf(users[Partner(c)])]
  /\ OnlineEffect(c, ViewOf(users[Partner(c)]), partnerView[c])
  /\ JoinEffect(c, ViewOf(users[Partner(c)]), partnerView[c])
  /\ OfflineEffect(c, ViewOf(users[Partner(c)]), partnerView[c])
  /\ waves' = IF emitted'[c] # emitted[c] THEN [waves EXCEPT ![c] = 0] ELSE waves
  /\ UNCHANGED <<now, users, dailyStats, buckets, userCharacter, userFocus, ends, resumes,
                 dangling, conn, env, runNo, nPauses, pausedTrue, bothFocus, issued,
                 timer, mail, audio>>

\* a delivery of the partner's node with nothing the session caches changed, or
\* any other render: the previous values equal the current ones
Rerender(c) ==
  /\ userCharacter[c]
  /\ OnlineEffect(c, partnerView[c], partnerView[c])
  /\ offlineTimer' = [offlineTimer EXCEPT ![c] = FALSE]
  /\ UNCHANGED <<now, users, dailyStats, buckets, userCharacter, userFocus, ends, resumes,
                 dangling, conn, env, runNo, nPauses, pausedTrue, bothFocus, issued,
                 partnerView, timer, mail, showJoinNotification, joinTimers,
                 joins, showOfflineNotification, waves, audio>>

\* the 15 s timer fires
OnlineTimeout(c) ==
  /\ onlineTimer[c]
  /\ onlineTimer' = [onlineTimer EXCEPT ![c] = FALSE]
  /\ showOnlineNotification' = [showOnlineNotification EXCEPT ![c] = FALSE]
  /\ UNCHANGED <<now, users, dailyStats, buckets, userCharacter, userFocus, ends, resumes,
                 dangling, conn, env, runNo, nPauses, pausedTrue, bothFocus, issued,
                 partnerView, timer, hiSent, emitted, mail, notes, audio>>

handleCloseOnlineNotification(c) ==
  /\ userCharacter[c]
  /\ showOnlineNotification[c]
  /\ onlineTimer' = [onlineTimer EXCEPT ![c] = FALSE]
  /\ showOnlineNotification' = [showOnlineNotification EXCEPT ![c] = FALSE]
  /\ UNCHANGED <<now, users, dailyStats, buckets, userCharacter, userFocus, ends, resumes,
                 dangling, conn, env, runNo, nPauses, pausedTrue, bothFocus, issued,
                 partnerView, timer, hiSent, emitted, mail, notes, audio>>

\* the oldest pending timer of the join effect fires
JoinTimeout(c) ==
  /\ joinTimers[c] # <<>>
  /\ joinTimers' = [joinTimers EXCEPT ![c] = Tail(@)]
  /\ showJoinNotification' = [showJoinNotification EXCEPT ![c] = FALSE]
  /\ UNCHANGED <<now, users, dailyStats, buckets, userCharacter, userFocus, ends, resumes,
                 dangling, conn, env, runNo, nPauses, pausedTrue, bothFocus, issued,
                 partnerView, timer, presence, mail, joins, showOfflineNotification,
                 offlineTimer, waves, audio>>

\* the timer of the offline effect fires
OfflineTimeout(c) ==
  /\ offlineTimer[c]
  /\ offlineTimer' = [offlineTimer EXCEPT ![c] = FALSE]
  /\ showOfflineNotification' = [showOfflineNotification EXCEPT ![c] = FALSE]
  /\ UNCHANGED <<now, users, dailyStats, buckets, userCharacter, userFocus, ends, resumes,
                 dangling, conn, env, runNo, nPauses, pausedTrue, bothFocus, issued,
                 partnerView, timer, presence, mail, showJoinNotification, joinTimers,
                 joins, waves, audio>>

\* The session's cache of its own node.  Where only the session itself writes the
\* node, the cache holds what onUserChange makes of the stored fields.
OwnStart(c) == OrNull(users[c].focusStartTime)
OwnTotalPaused(c) == OrNull(users[c].totalPausedTime)
OwnLastPause(c) == OrNull(users[c].lastPauseStartTime)

\* the seconds the interval callback of c's session computes at this moment
UserSeconds(c) ==
  NonNegative(calculateElapsed(userFocus[c], OwnStart(c), OwnTotalPaused(c),
                               OwnLastPause(c), DateNow(c)))
PartnerSeconds(c) ==
  NonNegative(calculateElapsed(partnerView[c].focus, partnerView[c].start,
                               partnerView[c].totalPaused, partnerView[c].lastPause,
                               DateNow(c)))

\* the setInterval callback of the timer effect; a callback that sets the values
\* already on display changes nothing
Interval(c) ==
  /\ <<userElapsedSeconds[c], partnerElapsedSeconds[c]>>
       # <<UserSeconds(c), PartnerSeconds(c)>>
  /\ userElapsedSeconds' = [userElapsedSeconds EXCEPT ![c] = UserSeconds(c)]
  /\ partnerElapsedSeconds' = [partnerElapsedSeconds EXCEPT ![c] = PartnerSeconds(c)]
  /\ UNCHANGED <<now, users, dailyStats, buckets, userCharacter, userFocus, ends, resumes,
                 dangling, conn, env, runNo, nPauses, pausedTrue, bothFocus, issued,
                 partnerView, presence, mail, notes, audio>>

\* a value is set at users/{to}/{slot k}; the write is the next one counted
Post(to, k) ==
  /\ sent < MaxSends
  /\ sent' = sent + 1
  /\ mailbox' = [mailbox EXCEPT ![to][k] = Some(sent + 1)]
  /\ skipped' = skipped \cup mailbox[to][k]

\* sendReward to the partner, the only sender a received value can name
sendReward(c) == Post(Partner(c), "reward")

handleSendRewardFromModal(c) ==
  /\ userCharacter[c]
  /\ showRewardModal[c]
  /\ sendReward(c)
  /\ showRewardModal' = [showRewardModal EXCEPT ![c] = FALSE]
  /\ UNCHANGED <<now, users, dailyStats, buckets, userCharacter, userFocus, ends, resumes,
                 dangling, conn, env, runNo, nPauses, pausedTrue, bothFocus, issued,
                 partnerView, timer, presence, inbox, pushed, received, surfaced, notes, audio>>

\* onSkip of the reward modal
SkipRewardModal(c) ==
  /\ userCharacter[c]
  /\ showRewardModal[c]
  /\ showRewardModal' = [showRewardModal EXCEPT ![c] = FALSE]
  /\ UNCHANGED <<now, users, dailyStats, buckets, userCharacter, userFocus, ends, resumes,
                 dangling, conn, env, runNo, nPauses, pausedTrue, bothFocus, issued,
                 partnerView, timer, presence, mailbox, inbox, pushed, received, sent,
                 surfaced, skipped, notes, audio>>

\* handleRespondToReward and handleAcknowledgeReward (k = "reward"),
\* handleReactToMessage and handleRespondToMessage (k = "message")
handleRespond(c, k) ==
  /\ userCharacter[c]
  /\ received[c][k] # Null
  /\ sendReward(c)
  /\ received' = [received EXCEPT ![c][k] = Null]
  /\ UNCHANGED <<now, users, dailyStats, buckets, userCharacter, userFocus, ends, resumes,
                 dangling, conn, env, runNo, nPauses, pausedTrue, bothFocus, issued,
                 partnerView, timer, presence, inbox, pushed, showRewardModal, surfaced, notes, audio>>

\* onDismiss of the reward or message notification
Dismiss(c, k) ==
  /\ userCharacter[c]
  /\ received[c][k] # Null
  /\ received' = [received EXCEPT ![c][k] = Null]
  /\ UNCHANGED <<now, users, dailyStats, buckets, userCharacter, userFocus, ends, resumes,
                 dangling, conn, env, runNo, nPauses, pausedTrue, bothFocus, issued,
                 partnerView, timer, presence, mailbox, inbox, pushed, showRewardModal,
                 sent, surfaced, skipped, notes, audio>>

\* the wave is offered in the online notification while the user is Focusing
handleSendHi(c) ==
  /\ userCharacter[c]
  /\ showOnlineNotification[c]
  /\ userFocus[c] = Focusing
  /\ ~hiSent[c]
  /\ Post(Partner(c), "message")
  /\ hiSent' = [hiSent EXCEPT ![c] = TRUE]
  /\ waves' = [waves EXCEPT ![c] = @ + 1]
  /\ UNCHANGED <<now, users, dailyStats, buckets, userCharacter, userFocus, ends, resumes,
                 dangling, conn, env, runNo, nPauses, pausedTrue, bothFocus, issued,
                 partnerView, timer, showOnlineNotification, onlineTimer, emitted,
                 inbox, pushed, received, showRewardModal, surfaced, showJoinNotification, joinTimers, joins,
                 showOfflineNotification, offlineTimer, audio>>

\* The store dispatches the slot's value to the session's 'value' listener: once
\* after the listener is registered, then whenever the value differs from the one
\* dispatched last.  The callback runs later, on the snapshot dispatched.
MailPush(c, k) ==
  /\ userCharacter[c]
  /\ inbox[c][k] = <<>>
  /\ pushed[c][k] # <<mailbox[c][k]>>
  /\ inbox' = [inbox EXCEPT ![c][k] = <<mailbox[c][k]>>]
  /\ pushed' = [pushed EXCEPT ![c][k] = <<mailbox[c][k]>>]
  /\ UNCHANGED <<now, users, dailyStats, buckets, userCharacter, userFocus, ends, resumes,
                 dangling, conn, env, runNo, nPauses, pausedTrue, bothFocus, issued,
                 partnerView, timer, presence, mailbox, received, showRewardModal, sent,
                 surfaced, skipped, notes, audio>>

\* mutant: the callback keeps the value in the slot
KeepSlot(slot) == slot

\* ...child(slot).set(null) in onRewardReceived and onMessageReceived
ClearSlot(slot) == Null

\* onRewardReceived (k = "reward") and onMessageReceived (k = "message"): the
\* set(null) reaches the session's own listener at once, as a null
onMailReceived(c, k) ==
  /\ inbox[c][k] # <<>>
  /\ inbox' = [inbox EXCEPT ![c][k] = <<>>]
  /\ LET value == Head(inbox[c][k])
     IN IF value # Null
          THEN /\ received' = [received EXCEPT ![c][k] = value]
               /\ mailbox' = [mailbox EXCEPT ![c][k] = ClearSlot(@)]
               /\ pushed' = [pushed EXCEPT ![c][k] = <<ClearSlot(mailbox[c][k])>>]
               /\ surfaced' = [surfaced EXCEPT ![Val(value)] = @ + 1]
          ELSE UNCHANGED <<received, mailbox, pushed, surfaced>>
  /\ UNCHANGED <<now, users, dailyStats, buckets, userCharacter, userFocus, ends, resumes,
                 dangling, conn, env, runNo, nPauses, pausedTrue, bothFocus, issued,
                 partnerView, timer, presence, showRewardModal, sent, skipped, notes, audio>>

\* ------------------------------------------------------------ specifications
Next ==
  \/ Tick
  \/ \E c \in Characters :
       \/ handleCharacterSelect(c)
       \/ startFocusing(c)
       \/ handlePause(c)
       \/ ResumeRead(c)
       \/ ResumeApply(c)
       \/ \E i \in Invocations :
            \/ EndBegin(c, i)
            \/ EndReadUser(c, i)
            \/ EndReadPartner(c, i)
            \/ EndApply(c, i)

NextLife ==
  \/ Next
  \/ \E c \in Characters :
       \/ ConnRegister(c)
       \/ ConnOnline(c)
       \/ Drop(c)
       \/ Unload(c)
       \/ OnDisconnect(c)
       \/ onUserChange(c)
       \/ \E i \in Invocations : DanglingCheck(c, i)

Spec == Init /\ [][Next]_vars
SpecSkew == InitSkew /\ [][Next]_vars
SpecRace == InitRace /\ [][Next]_vars
SpecLife == InitLife /\ [][NextLife]_vars

\* both users act, over the shorter stretch of time
InitPair == InitWith({0}, FALSE, Characters, RaceTicks)
SpecPair == InitPair /\ [][Next]_vars

NextTimer ==
  \/ Next
  \/ \E c \in Characters :
       \/ onPartnerChange(c)
       \/ Interval(c)

SpecTimer == InitTimer /\ [][NextTimer]_vars

\* Cycle dates: the apps are opened around a cycle boundary or around midnight
\* UTC, on one of the first days of the clock, and one user runs a session.
CycleDays == 0..MaxDays
CycleStarts ==
  {d * DayMs + o : d \in CycleDays,
                   o \in {CycleOffsetHours * HourMs - TickMs, CycleOffsetHours * HourMs,
                          12 * HourMs, DayMs - TickMs}}
InitCycle == \E t0 \in CycleStarts : InitAt(t0, {0}, FALSE, {"Flynn"}, RaceTicks, MaxRuns)

NextCycle ==
  \/ Tick
  \/ \E c \in Characters :
       \/ handleCharacterSelect(c)
       \/ startFocusing(c)
       \/ \E i \in Invocations :
            \/ EndBegin(c, i)
            \/ EndReadUser(c, i)
            \/ EndReadPartner(c, i)
            \/ EndApply(c, i)

SpecCycle == InitCycle /\ [][NextCycle]_vars

\* The clock stands still where presence and the mailboxes are studied.
\* One user comes and goes and runs zero-length sessions; the other watches.
InitNotify == InitWith({0}, FALSE, {"Rapunzel"}, 0)

NextNotify ==
  \E c \in Characters :
    \/ handleCharacterSelect(c)
    \/ ConnRegister(c)
    \/ ConnOnline(c)
    \/ Unload(c)
    \/ OnDisconnect(c)
    \/ startFocusing(c)
    \/ \E i \in Invocations :
         \/ EndBegin(c, i)
         \/ EndReadUser(c, i)
         \/ EndReadPartner(c, i)
         \/ EndApply(c, i)
    \/ onPartnerChange(c)
    \/ Rerender(c)
    \/ OnlineTimeout(c)
    \/ OfflineTimeout(c)
    \/ handleCloseOnlineNotification(c)

SpecNotify == InitNotify /\ [][NextNotify]_vars

\* a pending timer of the offline effect fires in the end
SpecNotifyLive ==
  SpecNotify /\ \A c \in Characters : WF_vars(OfflineTimeout(c))

\* One user runs zero-length sessions, sends a reward after each and reloads; the
\* other answers what arrives, and is answered in turn.
InitMail == InitRuns({0}, FALSE, {"Flynn"}, 0, MaxRuns + 1)

NextMail ==
  \E c \in Characters :
    \/ handleCharacterSelect(c)
    \/ Unload(c)
    \/ startFocusing(c)
    \/ \E i \in Invocations :
         \/ EndBegin(c, i)
         \/ EndReadUser(c, i)
         \/ EndReadPartner(c, i)
         \/ EndApply(c, i)
    \/ handleSendRewardFromModal(c)
    \/ SkipRewardModal(c)
    \/ \E k \in Kinds :
         \/ handleRespond(c, k)
         \/ Dismiss(c, k)
         \/ MailPush(c, k)
         \/ onMailReceived(c, k)

SpecMail == InitMail /\ [][NextMail]_vars

\* One user starts sessions, waves when the partner shows up, and reloads; the
\* other answers what arrives, and is answered in turn.
NextWave ==
  \E c \in Characters :
    \/ handleCharacterSelect(c)
    \/ Unload(c)
    \/ startFocusing(c)
    \/ (c \in actors /\ onPartnerChange(c))
    \/ handleSendHi(c)
    \/ \E k \in Kinds :
         \/ handleRespond(c, k)
         \/ Dismiss(c, k)
         \/ MailPush(c, k)
         \/ onMailReceived(c, k)

SpecWave == InitMail /\ [][NextWave]_vars

\* ------------------------------------------------------- AudioRecorder
MAX_RECORDING_TIME_MS == 120 * MsPerSec
RecTickMs == 60 * MsPerSec       \* the recorder's clock advances by a minute

\* everything but the recorder's state
app == <<now, users, dailyStats, buckets, userCharacter, userFocus, ends, resumes,
         dangling, conn, env, runNo, nPauses, pausedTrue, bothFocus, issued,
         partnerView, timer, presence, mail, notes>>

\* a timer fires when it is due, before anything else happens
NoTimerDue == \A t \in capTimers : t.due > recClock

RecTick ==
  /\ recClock < RecTicks * RecTickMs
  /\ NoTimerDue
  /\ recClock' = recClock + RecTickMs
  /\ UNCHANGED <<app, status, mediaRecorderRef, capTimers, recBegan, recNo>>

\* startRecording up to its await of getUserMedia
startRecording ==
  /\ NoTimerDue
  /\ status = "idle"
  /\ recNo < MaxRecordings
  /\ status' = "acquiring_media"
  /\ UNCHANGED <<app, recClock, mediaRecorderRef, capTimers, recBegan, recNo>>

\* getUserMedia resolved: the recorder is started and the cap timer is set
RecStarted ==
  /\ NoTimerDue
  /\ status = "acquiring_media"
  /\ status' = "recording"
  /\ recNo' = recNo + 1
  /\ mediaRecorderRef' = recNo + 1
  /\ recBegan' = recClock
  /\ capTimers' = capTimers \cup {[due |-> recClock + MAX_RECORDING_TIME_MS, rec |-> recNo + 1]}
  /\ UNCHANGED <<app, recClock>>

\* getUserMedia rejected: the catch block
RecDenied ==
  /\ NoTimerDue
  /\ status = "acquiring_media"
  /\ status' = "error"
  /\ mediaRecorderRef' = 0
  /\ UNCHANGED <<app, recClock, capTimers, recBegan, recNo>>

\* recorder.onstop, with or without chunks captured
onstop(captured) ==
  /\ status' = IF captured THEN "recorded" ELSE "error"
  /\ mediaRecorderRef' = 0

\* the Stop button: stopRecording, then the recorder's onstop
stopRecording ==
  /\ NoTimerDue
  /\ status = "recording"
  /\ IF mediaRecorderRef # 0
       THEN \E captured \in BOOLEAN : onstop(captured)
       ELSE UNCHANGED <<status, mediaRecorderRef>>
  /\ UNCHANGED <<app, recClock, capTimers, recBegan, recNo>>

\* recorder.onerror: the error is shown and cleanup() runs
onerror ==
  /\ NoTimerDue
  /\ status = "recording"
  /\ mediaRecorderRef # 0
  /\ status' = "error"
  /\ mediaRecorderRef' = 0
  /\ UNCHANGED <<app, recClock, capTimers, recBegan, recNo>>

handleReset ==
  /\ NoTimerDue
  /\ status = "recorded"
  /\ status' = "idle"
  /\ UNCHANGED <<app, recClock, mediaRecorderRef, capTimers, recBegan, recNo>>

handleTryAgain ==
  /\ NoTimerDue
  /\ status = "error"
  /\ status' = "idle"
  /\ UNCHANGED <<app, recClock, mediaRecorderRef, capTimers, recBegan, recNo>>

\* a cap timer fires: if (mediaRecorderRef.current?.state === 'recording') stopRecording()
CapTimeout ==
  \E t \in capTimers :
    /\ t.due <= recClock
    /\ capTimers' = capTimers \ {t}
    /\ IF mediaRecorderRef # 0
         THEN \E captured \in BOOLEAN : onstop(captured)
         ELSE UNCHANGED <<status, mediaRecorderRef>>
    /\ UNCHANGED <<app, recClock, recBegan, recNo>>

InitRecorder == InitWith({0}, FALSE, {}, 0)

NextRecorder ==
  \/ RecTick
  \/ startRecording
  \/ RecStarted
  \/ RecDenied
  \/ stopRecording
  \/ onerror
  \/ handleReset
  \/ handleTryAgain
  \/ CapTimeout

SpecRecorder == InitRecorder /\ [][NextRecorder]_vars

\* Both users run a session with pauses
\* and each session follows the partner; the clock stands still.
InitJoin == InitRuns({0}, FALSE, Characters, 0, MaxRuns)

NextJoin ==
  \E c \in Characters :
    \/ handleCharacterSelect(c)
    \/ startFocusing(c)
    \/ handlePause(c)
    \/ ResumeRead(c)
    \/ ResumeApply(c)
    \/ \E i \in Invocations :
         \/ EndBegin(c, i)
         \/ EndReadUser(c, i)
         \/ EndReadPartner(c, i)
         \/ EndApply(c, i)
    \/ onPartnerChange(c)
    \/ JoinTimeout(c)

SpecJoin == InitJoin /\ [][NextJoin]_vars

\* One user comes and goes and starts sessions; the other starts a session,
\* follows the partner's presence and waves from the online notification.
Waver == "Flynn"
InitHi == InitWith({0}, FALSE, Characters, 0)

NextHi ==
  \/ handleCharacterSelect(Waver)
  \/ startFocusing(Waver)
  \/ onPartnerChange(Waver)
  \/ OnlineTimeout(Waver)
  \/ handleSendHi(Waver)
  \/ Rerender(Waver)
  \/ handleCharacterSelect(Partner(Waver))
  \/ ConnRegister(Partner(Waver))
  \/ Unload(Partner(Waver))
  \/ OnDisconnect(Partner(Waver))
  \/ startFocusing(Partner(Waver))

SpecHi == InitHi /\ [][NextHi]_vars

\* ------------------------------------------------------------------ claims
RunStates == {Focusing, Paused}

\* C1: of two handleEnd calls of one user for the same run, however they
\* interleave, at most one increments a daily counter and the other mutates no
\* stat.
C1_OneCreditPerRun ==
  \A c \in Characters : \A i, j \in Invocations :
    (/\ i # j
     /\ ends[c][i].pc = "done" /\ ends[c][j].pc = "done"
     /\ ends[c][i].gRun = ends[c][j].gRun)
      => (ends[c][i].upd = NoUpdates \/ ends[c][j].upd = NoUpdates)

\* C2: a handleEnd call whose snapshot of its own node shows no run (the first
\* call's update was applied before it read) returns without issuing an update:
\* no dailyStats counter and no UserState field changes.
C2_EndOnClearedStateIsNoOp ==
  [][\A c \in Characters : \A i \in Invocations :
       (/\ ends[c][i].pc = "gotUser"
        /\ ~InRun(ends[c][i].user)
        /\ ends'[c][i].pc # "gotUser")
         => (/\ ends'[c][i].pc \in {"aborted", "idle"}
             /\ users' = users
             /\ dailyStats' = dailyStats)]_vars

\* a second call has read the node the first call's update cleared
C2_Witness ==
  \E c \in Characters : \E i, j \in Invocations :
    /\ ends[c][i].pc = "done" /\ ends[c][i].upd.self > 0
    /\ dailyStats[c] = ends[c][i].upd.self
    /\ ends[c][j].pc = "gotUser"
    /\ ends[c][j].user.focusState = Idle /\ ends[c][j].user.focusStartTime = Null
    /\ users[Partner(c)] # AbsentNode

\* C3: every dailyStats counter equals the sum of the increments issued on it.
C3_NoLostIncrement == \A k \in StatKeys : dailyStats[k] = issued[k]

\* both users' Ends read the other in a run, and both incremented the joint counter
C3_Witness ==
  /\ \A c \in Characters : \E i \in Invocations :
        ends[c][i].pc = "done" /\ ends[c][i].upd.self > 0 /\ ends[c][i].upd.joint > 0
  /\ dailyStats["joint"] >= 2

\* C4: focusStartTime is non-null iff focusState is Focusing or Paused.
C4_StartTimeIffInRun ==
  \A c \in Characters :
    (users[c].focusStartTime # Null) <=> (users[c].focusState \in RunStates)

\* C5: lastPauseStartTime is non-null iff focusState is Paused.
C5_PauseStartIffPaused ==
  \A c \in Characters :
    (users[c].lastPauseStartTime # Null) <=> (users[c].focusState = Paused)

Computes(c, i) == ends[c][i].pc = "gotUser" /\ ends'[c][i].pc = "ready"
Applies(c, i) == ends[c][i].pc = "ready" /\ ends'[c][i].pc = "done"

\* C6: within one run the stored totalPausedTime never decreases, whatever the
\* offset of the resuming client's clock, and every run start sets it to 0.
C6_PausedTimeMonotone ==
  [][\A c \in Characters :
       /\ (/\ runNo'[c] = runNo[c]
           /\ users[c].focusStartTime # Null
           /\ users'[c].focusStartTime = users[c].focusStartTime
           /\ users[c].totalPausedTime # Null
           /\ users'[c].totalPausedTime # Null)
            => Val(users'[c].totalPausedTime) >= Val(users[c].totalPausedTime)
       /\ (runNo'[c] # runNo[c]) => users'[c].totalPausedTime = Some(0)]_vars

\* C7: for a run of Start, alternating Pause and Resume, and End on one clock, End
\* adds floor((endTime - startTime - paused duration) / 1000) to the user's daily
\* total, whether or not the run is Paused at End.
C7_CreditIsFocusedTime ==
  [][\A c \in Characters : \A i \in Invocations :
       /\ Computes(c, i) =>
            ends'[c][i].upd.self =
              (ends[c][i].now - Val(ends[c][i].user.focusStartTime) - ends[c][i].gPaused)
                \div MsPerSec
       /\ Applies(c, i) => dailyStats'[c] = dailyStats[c] + ends[c][i].upd.self]_vars

\* an End of a run that was paused for a tick credits a second
C7_Witness ==
  \E c \in Characters : \E i \in Invocations :
    /\ ends[c][i].pc = "ready"
    /\ ends[c][i].gPaused >= TickMs
    /\ ends[c][i].user.totalPausedTime = Some(ends[c][i].gPaused)
    /\ ends[c][i].upd.self >= 1

\* C8: both in runs without pauses, started at tA and tB; an End at t >= max(tA, tB)
\* adds floor((t - own start) / 1000) to the ender's total and
\* floor((t - max(tA, tB)) / 1000) to the joint total.
C8_NoPauseCredits ==
  [][\A c \in Characters : \A i \in Invocations :
       LET u == ends[c][i].user
           p == users[Partner(c)]
           t == ends[c][i].now
           tA == Num(u.focusStartTime)
           tB == Num(p.focusStartTime)
       IN /\ (/\ Computes(c, i)
               /\ u.focusState = Focusing /\ u.totalPausedTime = Some(0)
               /\ p.focusState = Focusing /\ p.focusStartTime # Null
               /\ p.totalPausedTime = Some(0)
               /\ t >= Max(tA, tB))
                => /\ ends'[c][i].upd.self = (t - tA) \div MsPerSec
                   /\ ends'[c][i].upd.joint = (t - Max(tA, tB)) \div MsPerSec
          /\ Applies(c, i) =>
               /\ dailyStats'[c] = dailyStats[c] + ends[c][i].upd.self
               /\ dailyStats'["joint"] = dailyStats["joint"] + ends[c][i].upd.joint]_vars

\* the partner started a tick after the ender; the End credits a second to each
C8_Witness ==
  \E c \in Characters : \E i \in Invocations :
    /\ ends[c][i].pc = "ready"
    /\ ends[c][i].user.focusState = Focusing
    /\ ends[c][i].user.totalPausedTime = Some(0)
    /\ users[Partner(c)].focusState = Focusing
    /\ users[Partner(c)].totalPausedTime = Some(0)
    /\ users[Partner(c)].focusStartTime =
         Some(Val(ends[c][i].user.focusStartTime) + TickMs)
    /\ ends[c][i].upd = [self |-> 1, joint |-> 1]

\* C9: the joint seconds of an End are at most the ender's session seconds and at
\* most the partner's focused seconds at the same instant, and are 0 (nothing is
\* written to the joint counter) when the partner is in no run or the effective
\* intervals do not overlap.
C9_JointBounded ==
  [][\A c \in Characters : \A i \in Invocations :
       LET u == ends[c][i].user
           p == users[Partner(c)]
           t == ends[c][i].now
       IN /\ Computes(c, i) =>
               /\ ends'[c][i].upd.joint <= ends'[c][i].upd.self
               /\ InRun(p) => ends'[c][i].upd.joint <= SessionDurationSec(p, t)
               /\ ~InRun(p) => ends'[c][i].upd.joint = 0
               /\ (InRun(p) /\ Max(EffectiveStart(u, t), EffectiveStart(p, t)) >= t)
                     => ends'[c][i].upd.joint = 0
          /\ (Applies(c, i) /\ ends[c][i].upd.joint = 0) =>
               dailyStats'["joint"] = dailyStats["joint"]]_vars

\* an End that credits joint seconds, and whose partner focused longer
C9_Witness ==
  \E c \in Characters : \E i \in Invocations :
    /\ ends[c][i].pc = "ready"
    /\ ends[c][i].upd.joint >= 1
    /\ InRun(users[Partner(c)])
    /\ Val(users[Partner(c)].focusStartTime) < Val(ends[c][i].user.focusStartTime)

\* C10: the joint seconds of an End are the time, between the later run start and
\* the End instant, during which both users were Focusing at once.
C10_JointIsTimeBothFocusing ==
  [][\A c \in Characters : \A i \in Invocations :
       (/\ Computes(c, i)
        /\ ends[c][i].now = now
        /\ InRun(users[Partner(c)]))
         => ends'[c][i].upd.joint = bothFocus \div MsPerSec]_vars

\* the inputs of the claim about a Focusing run: no pause open, the clock read is
\* not before the start
FocusingInputs(focus, startTime, lastPauseStart, t) ==
  /\ focus = Focusing
  /\ startTime # Null
  /\ lastPauseStart = Null
  /\ t >= Num(startTime)

\* C11 as stated: for a Focusing run with lastPauseStartTime null and
\* now >= focusStartTime the seconds put on display are
\* floor((now - focusStartTime - totalPausedTime) / 1000) and are never negative;
\* with focusStartTime null they are 0.
C11_ElapsedIsFloor ==
  [][\A c \in Characters :
       Interval(c) =>
         LET t == DateNow(c)
             v == partnerView[c]
         IN /\ FocusingInputs(userFocus[c], OwnStart(c), OwnLastPause(c), t) =>
                 /\ userElapsedSeconds'[c] =
                      (t - Val(OwnStart(c)) - Num(OwnTotalPaused(c))) \div MsPerSec
                 /\ userElapsedSeconds'[c] >= 0
            /\ FocusingInputs(v.focus, v.start, v.lastPause, t) =>
                 /\ partnerElapsedSeconds'[c] =
                      (t - Val(v.start) - Num(v.totalPaused)) \div MsPerSec
                 /\ partnerElapsedSeconds'[c] >= 0
            /\ OwnStart(c) = Null => userElapsedSeconds'[c] = 0
            /\ v.start = Null => partnerElapsedSeconds'[c] = 0]_vars

\* C11 as the code has it: on the same inputs the seconds put on display are
\* floor((now - focusStartTime - totalPausedTime) / 1000) when that is positive
\* and 0 otherwise, so never negative; with focusStartTime null they are 0.
C11_ElapsedIsClampedFloor ==
  [][\A c \in Characters :
       Interval(c) =>
         LET t == DateNow(c)
             v == partnerView[c]
         IN /\ FocusingInputs(userFocus[c], OwnStart(c), OwnLastPause(c), t) =>
                 /\ userElapsedSeconds'[c] =
                      Max(0, (t - Val(OwnStart(c)) - Num(OwnTotalPaused(c))) \div MsPerSec)
                 /\ userElapsedSeconds'[c] >= 0
            /\ FocusingInputs(v.focus, v.start, v.lastPause, t) =>
                 /\ partnerElapsedSeconds'[c] =
                      Max(0, (t - Val(v.start) - Num(v.totalPaused)) \div MsPerSec)
                 /\ partnerElapsedSeconds'[c] >= 0
            /\ OwnStart(c) = Null => userElapsedSeconds'[c] = 0
            /\ v.start = Null => partnerElapsedSeconds'[c] = 0]_vars

\* a Focusing run that was paused for a while shows a second on its own display
C11_Witness ==
  \E c \in Characters :
    /\ FocusingInputs(userFocus[c], OwnStart(c), OwnLastPause(c), DateNow(c))
    /\ Num(OwnTotalPaused(c)) >= TickMs
    /\ userElapsedSeconds[c] = 1
    /\ userElapsedSeconds[c] = UserSeconds(c)

\* C12: while a run is Paused with lastPauseStartTime set, the elapsed seconds are
\* the same for every value of now; at the instant Resume clears
\* lastPauseStartTime and adds the pause to totalPausedTime they equal the frozen
\* value, and from then on they do not decrease as now advances.
C12_FrozenWhilePaused ==
  [][\A c \in Characters :
       /\ (/\ userFocus[c] = Paused /\ OwnLastPause(c) # Null
           /\ users'[c] = users[c] /\ userFocus'[c] = userFocus[c])
            => UserSeconds(c)' = UserSeconds(c)
       /\ (/\ partnerView[c].focus = Paused /\ partnerView[c].lastPause # Null
           /\ partnerView'[c] = partnerView[c])
            => PartnerSeconds(c)' = PartnerSeconds(c)
       /\ (/\ userFocus[c] = Paused /\ OwnLastPause(c) # Null
           /\ userFocus'[c] = Focusing /\ OwnLastPause(c)' = Null)
            => UserSeconds(c)' = UserSeconds(c)
       /\ (/\ userFocus[c] = Focusing
           /\ users'[c] = users[c] /\ userFocus'[c] = userFocus[c])
            => UserSeconds(c)' >= UserSeconds(c)
       /\ Interval(c) => userElapsedSeconds'[c] = UserSeconds(c)]_vars

\* a resumed run whose display has moved on from the value it showed while Paused
C12_Witness ==
  \E c \in Characters :
    /\ userFocus[c] = Focusing
    /\ Num(OwnTotalPaused(c)) >= TickMs
    /\ userElapsedSeconds[c] = 0
    /\ UserSeconds(c) = 1

\* the callback of c's listener on slot k runs on a value
Consumes(c, k) ==
  /\ inbox[c][k] # <<>>
  /\ Head(inbox[c][k]) # Null
  /\ inbox'[c][k] = <<>>
  /\ userCharacter'[c]

\* C13: of two rewards written to a slot before the recipient's listener has run
\* for the first, the first is never shown; and once the recipient's callback has
\* consumed a value the slot in the store is null.
C13_LastWriteWins ==
  [][/\ \A w \in skipped' : surfaced'[w] = 0
     /\ \A c \in Characters :
          Consumes(c, "reward") => mailbox'[c]["reward"] = Null]_vars

OnlineEdge(c) ==
  /\ userCharacter[c] /\ userCharacter'[c]
  /\ ~partnerView[c].online
  /\ partnerView'[c].online
  /\ partnerView'[c].focus = Idle

\* C15: the 'partner online' notification is shown and its timer armed exactly
\* once per offline-to-online edge seen while the partner is idle; no further
\* snapshot with the partner still online and no re-render shows it again or
\* restarts the timer.
C15_OnlineOncePerEdge ==
  [][\A c \in Characters :
       /\ (emitted'[c] # emitted[c]) <=> OnlineEdge(c)
       /\ OnlineEdge(c) => showOnlineNotification'[c] /\ onlineTimer'[c]
       /\ ~OnlineEdge(c) =>
            /\ showOnlineNotification'[c] => showOnlineNotification[c]
            /\ onlineTimer'[c] => onlineTimer[c]]_vars

\* the notification is up for the second edge the session has seen
C15_Witness ==
  \E c \in Characters :
    /\ showOnlineNotification[c] /\ onlineTimer[c]
    /\ ~emitted[c]
    /\ partnerView[c].online

\* C16: a run the store holds (state Focusing or Paused with a focusStartTime)
\* leaves the store only through the update of the session-end procedure, which
\* credits it and resets its fields; in particular a run left by an abandoned
\* browser session is closed that way when the character is selected again,
\* and so is a run abandoned by a disconnect.
C16_DanglingRunClosedByEnd ==
  [][\A c \in Characters :
       (InRun(users[c]) /\ ~InRun(users'[c])) => \E i \in Invocations : Applies(c, i)]_vars

\* the cycle window of an instant: window D is [day D at the offset hour UTC,
\* day D + 1 at the offset hour UTC)
CycleWindow(t) == (t - CycleOffsetHours * HourMs) \div DayMs

\* the calendar: the UTC dates of the first days of the clock and of the day before
UTCDateOfDay(d) ==
  CASE d = 0 - 1 -> <<"1", "9", "6", "9", "-", "1", "2", "-", "3", "1">>
    [] d = 0 -> <<"1", "9", "7", "0", "-", "0", "1", "-", "0", "1">>
    [] d = 1 -> <<"1", "9", "7", "0", "-", "0", "1", "-", "0", "2">>
    [] d = 2 -> <<"1", "9", "7", "0", "-", "0", "1", "-", "0", "3">>
    [] d = 3 -> <<"1", "9", "7", "0", "-", "0", "1", "-", "0", "4">>
    [] d = 4 -> <<"1", "9", "7", "0", "-", "0", "1", "-", "0", "5">>
    [] OTHER -> <<>>

\* instants at, just before and just after midnight and the cycle boundary
CycleProbes ==
  {d * DayMs + o : d \in 0..(MaxDays + 1),
                   o \in {0, 1, CycleOffsetHours * HourMs - 1, CycleOffsetHours * HourMs,
                          CycleOffsetHours * HourMs + 1, 12 * HourMs, DayMs - 1}}

\* C17: getCycleDateString depends on its timestamp alone; two timestamps get the
\* same key iff they lie in the same cycle window; and the dailyStats paths an End
\* writes carry the date of the window in which the End sampled its 'now'.
C17_CycleKeyOfEndInstant ==
  \A b \in buckets :
    /\ b.key = UTCDateOfDay(CycleWindow(b.at))
    /\ \A t \in CycleProbes :
         (CycleWindow(t) = CycleWindow(b.at)) <=> (getCycleDateString(t) = b.key)

\* an End between midnight UTC and the cycle boundary has credited its run: the
\* key is the date of the day before
C17_Witness ==
  \E b \in buckets :
    /\ UTCDay(b.at) # CycleWindow(b.at)
    /\ b.key = UTCDateOfDay(UTCDay(b.at) - 1)
    /\ dailyStats["Flynn"] > 0

\* the run fields of a node are as an End leaves them
IsReset(data) ==
  /\ data.focusState = Idle
  /\ data.focusStartTime = Null
  /\ data.totalPausedTime = Null
  /\ data.lastPauseStartTime = Null

\* C18: the increments of an End and the reset of the ender's run fields reach
\* the store in one step: every step that changes a daily counter is the update
\* of an End and leaves the ender's run fields reset, and every update of an End
\* adds exactly its increments in the step that resets the run.
C18_EndIsAtomic ==
  [][/\ dailyStats' # dailyStats =>
          \E c \in Characters : \E i \in Invocations :
             Applies(c, i) /\ IsReset(users'[c])
     /\ \A c \in Characters : \A i \in Invocations :
          Applies(c, i) =>
            /\ IsReset(users'[c])
            /\ dailyStats'[c] = dailyStats[c] + ends[c][i].upd.self
            /\ dailyStats'["joint"] = dailyStats["joint"] + ends[c][i].upd.joint
            /\ dailyStats'[Partner(c)] = dailyStats[Partner(c)]]_vars

\* an End has credited own and joint seconds and reset its run while the
\* partner, who can observe the store, is still in a run
C18_Witness ==
  \E c \in Characters : \E i \in Invocations :
    /\ ends[c][i].pc = "done"
    /\ ends[c][i].upd.self > 0 /\ ends[c][i].upd.joint > 0
    /\ dailyStats[c] > 0 /\ dailyStats["joint"] > 0
    /\ IsReset(users[c])
    /\ InRun(users[Partner(c)])

\* C19: the update of an End whose computed duration is 0 seconds, a negative
\* difference included, writes no dailyStats path and still resets focusState
\* to Idle and focusStartTime, totalPausedTime and lastPauseStartTime to null.
C19_ZeroEndOnlyResets ==
  [][\A c \in Characters : \A i \in Invocations :
       (Applies(c, i) /\ SessionDurationSec(ends[c][i].user, ends[c][i].now) = 0) =>
         /\ dailyStats' = dailyStats
         /\ buckets' = buckets
         /\ IsReset(users'[c])]_vars

\* a session whose clock is behind ended its run in the instant it began: the
\* difference was negative, nothing was credited and the run is reset
C19_Witness ==
  \E c \in Characters : \E i \in Invocations :
    /\ skew[c] < 0
    /\ now = Epoch
    /\ ends[c][i].pc = "done"
    /\ ends[c][i].upd = NoUpdates
    /\ runNo[c] = 1
    /\ IsReset(users[c])
    /\ buckets = {}

\* C20: between the instant an End samples 'now' and its read of the partner,
\* its read of its own node included, no write to the partner's node takes
\* effect, so that both snapshots are of one store state.
C20_SingleSnapshot ==
  [][\A c \in Characters : \A i \in Invocations :
       ends[c][i].pc \in {"begun", "gotUser"} =>
         users'[Partner(c)] = users[Partner(c)]]_vars

\* C21: an End of a user in a run that finds the partner's node absent treats the
\* partner as idle: it goes on to credit the user's session seconds, credits no
\* joint seconds and resets the user's run fields.
C21_AbsentPartnerIsIdle ==
  [][\A c \in Characters : \A i \in Invocations :
       (/\ ends[c][i].pc = "gotUser"
        /\ ends'[c][i].pc # "gotUser"
        /\ InRun(ends[c][i].user)
        /\ users[Partner(c)] = AbsentNode)
         => (/\ ends'[c][i].pc = "ready"
             /\ ends'[c][i].upd.self = SessionDurationSec(ends[c][i].user, ends[c][i].now)
             /\ ends'[c][i].upd.joint = 0)]_vars

\* C22: the 'joined' notification is shown exactly in the renders in which the
\* partner's focus state goes from Idle to Focusing while the user is Focusing;
\* no other change shows it, the partner's resume (Paused to Focusing) included.
C22_JoinedOnlyOnStart ==
  [][\A c \in Characters :
       (joins'[c] # joins[c]) <=>
         (/\ userFocus[c] = Focusing
          /\ partnerView[c].focus = Idle
          /\ partnerView'[c].focus = Focusing)]_vars

\* C26: the timer that hides a 'joined' notification is the one that was set
\* for it: no timer set for an earlier notification hides a later one.
C26_JoinTimerOfItsOwn ==
  [][\A c \in Characters :
       (/\ joinTimers[c] # <<>>
        /\ joinTimers'[c] = Tail(joinTimers[c])
        /\ showJoinNotification[c])
         => Head(joinTimers[c]) = joins[c]]_vars

\* C23: a 'partner offline' notification that is shown is hidden again by its
\* timer, whatever renders follow the one that showed it.
C23_OfflineDismissed ==
  \A c \in Characters : showOfflineNotification[c] ~> ~showOfflineNotification[c]

\* the session of c sees the partner go offline, or go from Idle to Focusing
LeavesIdleOnline(c) ==
  \/ partnerView[c].online /\ ~partnerView'[c].online
  \/ partnerView[c].focus = Idle /\ partnerView'[c].focus = Focusing

\* C24: in the step in which a session sees the partner go offline or go from
\* Idle to Focusing the 'partner online' notification is hidden, its timer is
\* cancelled and the wave flag is reset; and the notification is never up while
\* the session holds the partner offline.
C24_OnlineHiddenAtOnce ==
  [][\A c \in Characters :
       /\ LeavesIdleOnline(c) =>
            ~showOnlineNotification'[c] /\ ~onlineTimer'[c] /\ ~hiSent'[c]
       /\ showOnlineNotification'[c] => partnerView'[c].online]_vars

\* the user waved, then the partner went offline: the notification is down, no
\* timer is pending and the wave flag is reset
C24_Witness ==
  \E c \in Characters :
    /\ waves[c] = 1
    /\ ~partnerView[c].online
    /\ ~showOnlineNotification[c] /\ ~onlineTimer[c] /\ ~hiSent[c]

\* C25: between two showings of the 'partner online' notification a session
\* writes at most one greeting, the wave is not offered once it was sent, and
\* the wave flag is clear whenever the notification is shown for a new
\* offline-to-online edge.
C25_OneWavePerEpisode ==
  [][\A c \in Characters :
       /\ waves'[c] <= 1
       /\ waves'[c] > waves[c] => ~hiSent[c] /\ hiSent'[c]
       /\ emitted'[c] # emitted[c] => ~hiSent'[c] /\ waves'[c] = 0]_vars

\* the user waved in the second showing of the notification, having waved in
\* the first
C25_Witness ==
  \E c \in Characters :
    /\ sent = 2
    /\ waves[c] = 1
    /\ hiSent[c] /\ showOnlineNotification[c]
    /\ ~emitted[c]

\* C27: the cap timer stops a recording only when that recording has been
\* recording for 120 s, and no recording lasts longer than 120 s.
C27_CapStopsItsOwnRecording ==
  [][/\ (status = "recording" /\ status' # "recording" /\ capTimers' # capTimers)
          => recClock - recBegan >= MAX_RECORDING_TIME_MS
     /\ status' = "recording" => recClock' - recBegan' <= MAX_RECORDING_TIME_MS]_vars

\* C28: the overlap of the two users' runs is credited to the joint counter by
\* at most one of their Ends, and the joint total never exceeds the time that
\* has passed, which bounds the time the two overlapped.
C28_JointCreditedOnce ==
  /\ ~(\A c \in Characters : \E i \in Invocations :
          ends[c][i].pc = "done" /\ ends[c][i].upd.joint > 0)
  /\ dailyStats["joint"] * MsPerSec <= now - Epoch

\* C29: the set(null) of a mailbox callback clears the value the callback was
\* called with and no other: a value written to the slot after the snapshot
\* was dispatched is still there to be surfaced.
C29_ClearKeepsNewerValue ==
  [][\A c \in Characters : \A k \in Kinds :
       Consumes(c, k) =>
         (mailbox[c][k] # Head(inbox[c][k]) => mailbox'[c][k] = mailbox[c][k])]_vars

\* C30: while a session of a character is live and the store shows the
\* character online, the onDisconnect update of that session's connection is
\* registered.
C30_HookBeforeOnline ==
  \A c \in Characters :
    (userCharacter[c] /\ users[c].isOnline = Some(TRUE)) => armed[c]

====
